---- MODULE Spec2Model ----
(***************************************************************************)
(* Model of the npm -> Nexus migration tool.                               *)
(*   phase two: upload_to_nexus.py (NexusUploader, main_upload)            *)
(*   phase one: download_packages.py (parse_package_lock,                  *)
(*              download_package, main_download)                           *)
(***************************************************************************)
EXTENDS Integers, Sequences, FiniteSets, TLC

(* ---- bounds of the model ---- *)
MaxRepos == 2
MaxKeys == 2
MaxPkgs == 2
MaxDigest == 2
MaxLockEntries == 2
MaxTasks == 2
MaxWorkers == 2

Repos == 1..MaxRepos
Keys == 1..MaxKeys
Digests == 1..MaxDigest

(* a digest that is absent (python None) *)
NoSha == 0

VARIABLES
    check_repos,      \* NexusUploader.check_repos
    upload_repo,      \* NexusUploader.upload_repo
    meta_info_list,   \* the manifest read by main_upload
    remote,           \* the Nexus store: repository -> coordinates -> components
    up_pc,            \* position of main_upload / process_package
    up_i,             \* index of the manifest entry of the for loop of main_upload
    up_j,             \* index into check_repos of the for loop of process_package
    found_component,  \* local of process_package
    sha_matches,      \* local of process_package
    calls,            \* requests issued for the current manifest entry, in order
    processed,        \* manifest indices process_package was invoked for, in order
    outcomes,         \* how each invocation of process_package ended, in order
    remote0,          \* the store as it was when process_package was entered
    lockfile,         \* the 'packages' mapping of package-lock.json, in file order
    pl_pc,            \* position of parse_package_lock
    pl_i,             \* index of the lockfile entry of the for loop of parse_package_lock
    packages_to_download,  \* the list parse_package_lock builds
    tgz_paths,        \* tgz_path of download_package for each parsed descriptor
    dl_config,        \* the [Downloader] section of config.ini, and the state of download_dir
    task,             \* per submitted future: position and locals of download_package
    disk,             \* the files of download_dir: path -> inode and data, or no file
    next_ino,         \* the next inode the file system hands out
    dl_meta_info_list,  \* meta_info_list of main_download
    dl_collected,     \* the futures as_completed has yielded so far, in order
    dl_main,          \* position of main_download
    meta_file         \* the manifest file on disk

uploadVars == <<check_repos, upload_repo, meta_info_list, remote, up_pc, up_i, up_j,
                found_component, sha_matches, calls, processed, outcomes, remote0>>

parseVars == <<lockfile, pl_pc, pl_i, packages_to_download, tgz_paths>>

downloadVars == <<dl_config, task, disk, next_ino, dl_meta_info_list, dl_collected,
                  dl_main, meta_file>>

phaseOneVars == <<parseVars, downloadVars>>

vars == <<uploadVars, phaseOneVars>>

\* the variables of parse_package_lock while another phase is modelled
ParseIdle ==
    /\ lockfile = <<>>
    /\ pl_pc = "idle"
    /\ pl_i = 0
    /\ packages_to_download = <<>>
    /\ tgz_paths = <<>>

\* the manifest file: absent, partly written, or holding a list of entries
ManifestFile(state, entries) == [state |-> state, entries |-> entries]

\* the variables of main_download while another phase is modelled
DownloadIdle ==
    /\ dl_config = <<>>
    /\ task = <<>>
    /\ disk = <<>>
    /\ next_ino = 0
    /\ dl_meta_info_list = <<>>
    /\ dl_collected = <<>>
    /\ dl_main = "idle"
    /\ meta_file = ManifestFile("absent", <<>>)

PhaseOneIdle == ParseIdle /\ DownloadIdle

(* ---- the remote store ---- *)

\* python None for a component
NoComponent == [id |-> <<0, 0, 0>>, repository |-> 0, key |-> 0, assets |-> <<>>]

\* an asset of a component: its path ends in .tgz or not, and its sha512 checksum
Asset(tgz, sha) == [tgz |-> tgz, sha512 |-> sha]

Component(r, k, n, assets) == [id |-> <<r, k, n>>, repository |-> r, key |-> k, assets |-> assets]

\* what one repository may hold for one group/name/version at the start:
\* nothing, one component (without .tgz asset, or with one of each digest), or two
ContentIds == 0..(MaxDigest + 2)

ContentOf(r, k, c) ==
    IF c = 0 THEN {}
    ELSE IF c = MaxDigest + 1 THEN {Component(r, k, 1, <<Asset(FALSE, NoSha)>>)}
    ELSE IF c = MaxDigest + 2
         THEN {Component(r, k, 1, <<Asset(TRUE, 1)>>), Component(r, k, 2, <<Asset(TRUE, 1)>>)}
    ELSE {Component(r, k, 1, <<Asset(TRUE, c)>>)}

\* outcomes of an HTTP request
SearchResponses == {"ok", "404", "httperr", "neterr"}

\* the outcomes of os.path.exists / open / POST in _upload_package
UploadOutcomes == {"nofile", "openerr", "ok", "fail"}

(* ---- NexusUploader helpers ---- *)

\* what the search endpoint answered, as _find_component sees it
SearchResult(items, resp) ==
    IF resp # "ok" THEN resp
    ELSE IF items = {} THEN "empty"
    ELSE IF Cardinality(items) # 1 THEN "multi"
    ELSE "one"

\* _find_component that reads the items whatever the status of the response was
_find_component_AnyStatus(items, resp) ==
    IF items # {} /\ Cardinality(items) = 1
    THEN CHOOSE c \in items : TRUE
    ELSE NoComponent

\* _find_component: the component returned to process_package, or None.
\* The ValueError for a non-unique result is raised inside the try block and is
\* caught by its own `except Exception`, so the function returns None.
_find_component(items, resp) ==
    IF resp = "ok" /\ items # {} /\ Cardinality(items) = 1
    THEN CHOOSE c \in items : TRUE
    ELSE NoComponent

RECURSIVE FirstTgzSha(_)
FirstTgzSha(assets) ==
    IF assets = <<>> THEN NoSha
    ELSE IF Head(assets).tgz THEN Head(assets).sha512
    ELSE FirstTgzSha(Tail(assets))

\* _get_remote_sha512_hex: sha512 of the first .tgz asset, or None
_get_remote_sha512_hex(component) ==
    IF component = NoComponent THEN NoSha ELSE FirstTgzSha(component.assets)

\* a comparison of digests that never reports a match
ShaMatches_Never(component, local_sha512_hex) ==
    _get_remote_sha512_hex(component) = local_sha512_hex /\ FALSE

\* the comparison of process_package, line 130
ShaMatches(component, local_sha512_hex) ==
    _get_remote_sha512_hex(component) = local_sha512_hex

\* AfterSearch without the early return on a digest match
AfterSearch_NoSkip(found, matches, upload) ==
    IF found # NoComponent
    THEN IF found.repository = upload THEN "delete" ELSE "upload"
    ELSE "upload"

\* AfterSearch that never deletes the mismatching component
AfterSearch_NoDelete(found, matches, upload) ==
    IF matches THEN "return" ELSE "upload"

\* AfterSearch that returns when nothing was found
AfterSearch_SkipWhenAbsent(found, matches, upload) ==
    IF matches \/ found = NoComponent THEN "return"
    ELSE IF found.repository = upload THEN "delete" ELSE "upload"

\* AfterSearch with the delete of line 153 active: deletes in any repository
AfterSearch_DeleteAnywhere(found, matches, upload) ==
    IF matches THEN "return"
    ELSE IF found # NoComponent THEN "delete" ELSE "upload"

\* steps 2 and 3 of process_package: what follows the search loop
AfterSearch(found, matches, upload) ==
    IF matches THEN "return"
    ELSE IF found # NoComponent /\ ~matches
         THEN IF found.repository = upload THEN "delete" ELSE "upload"
         ELSE "upload"

\* the store after DELETE components/{id} succeeded
StoreAfterDelete(store, id) ==
    [r \in Repos |-> [k \in Keys |-> {c \in store[r][k] : c.id # id}]]

\* the store after POST components?repository=upload succeeded: the repository
\* holds the uploaded archive for these coordinates
StoreAfterUpload(store, upload, meta) ==
    [store EXCEPT ![upload][meta.key] =
        {Component(upload, meta.key, 0, <<Asset(TRUE, meta.sha512_hex)>>)}]

\* an exception of process_package that ends the pass
AfterException_Abort == "done"

\* main_upload's except clause: the for loop goes on with the next entry
AfterException == "loop"

Call(op, repo, id, res, conflict) ==
    [op |-> op, repo |-> repo, id |-> id, res |-> res, conflict |-> conflict]

\* a component with other content than the local archive sits in the repository
Conflicting(store, repo, meta) ==
    \E c \in store[repo][meta.key] : _get_remote_sha512_hex(c) # meta.sha512_hex

(* ---- phase two: main_upload and process_package ---- *)

ManifestEntries == [key : Keys, sha512_hex : Digests]

RECURSIVE SeqsOver(_, _)
SeqsOver(S, n) ==
    IF n = 0 THEN {<<>>}
    ELSE LET shorter == SeqsOver(S, n - 1)
         IN shorter \cup {Append(s, x) : s \in {t \in shorter : Len(t) = n - 1}, x \in S}

\* check_repositories, a non-empty list of repository names. Repository names are
\* interchangeable, so the repositories are numbered in the order of the list;
\* upload_repository is any repository, in the list (at any position) or not.
CheckRepoLists == {[n \in 1..m |-> n] : m \in 1..MaxRepos}

Manifests == {s \in SeqsOver(ManifestEntries, MaxPkgs) : s # <<>>}

InRange(s) == {s[n] : n \in 1..Len(s)}

\* The cells of the store the run can read or write: the checked repositories and the
\* upload repository, at the coordinates of the manifest. The other cells start empty.
Relevant(list, upload, manifest, r, k) ==
    /\ r \in InRange(list) \cup {upload}
    /\ k \in {manifest[n].key : n \in 1..Len(manifest)}

InitUpload ==
    /\ check_repos \in CheckRepoLists
    /\ upload_repo \in Repos
    /\ meta_info_list \in Manifests
    /\ \E content \in [Repos -> [Keys -> ContentIds]] :
          /\ \A r \in Repos, k \in Keys :
                Relevant(check_repos, upload_repo, meta_info_list, r, k) \/ content[r][k] = 0
          /\ remote = [r \in Repos |-> [k \in Keys |-> ContentOf(r, k, content[r][k])]]
    /\ up_pc = "loop"
    /\ up_i = 0
    /\ up_j = 0
    /\ found_component = NoComponent
    /\ sha_matches = FALSE
    /\ calls = <<>>
    /\ processed = <<>>
    /\ outcomes = <<>>
    /\ remote0 = remote
    /\ PhaseOneIdle

\* main_upload: the for loop takes the next manifest entry and calls process_package
BeginEntry ==
    /\ up_pc = "loop"
    /\ up_i < Len(meta_info_list)
    /\ up_i' = up_i + 1
    /\ processed' = Append(processed, up_i + 1)
    /\ up_j' = 1
    /\ found_component' = NoComponent
    /\ sha_matches' = FALSE
    /\ calls' = <<>>
    /\ remote0' = remote
    /\ up_pc' = "search"
    /\ UNCHANGED <<phaseOneVars, check_repos, upload_repo, meta_info_list, remote, outcomes>>

\* SearchRepo without the break of line 137: every check repository is searched and
\* the component found last is the one kept
SearchRepo_NoBreak ==
    /\ up_pc = "search"
    /\ \E resp \in SearchResponses :
        LET meta == meta_info_list[up_i]
            repo == check_repos[up_j]
            items == remote[repo][meta.key]
            component == _find_component(items, resp)
        IN /\ calls' = Append(calls, Call("search", repo, component.id,
                                          SearchResult(items, resp), FALSE))
           /\ IF component # NoComponent
              THEN /\ found_component' = component
                   /\ sha_matches' = ShaMatches(component, meta.sha512_hex)
              ELSE UNCHANGED <<found_component, sha_matches>>
           /\ up_j' = IF up_j = Len(check_repos) THEN up_j ELSE up_j + 1
           /\ up_pc' = IF up_j = Len(check_repos) THEN "decide" ELSE "search"
    /\ UNCHANGED <<phaseOneVars, check_repos, upload_repo, meta_info_list, remote, up_i, processed,
                   outcomes, remote0>>

\* process_package step 1: one iteration of the loop over check_repos
SearchRepo ==
    /\ up_pc = "search"
    /\ \E resp \in SearchResponses :
        LET meta == meta_info_list[up_i]
            repo == check_repos[up_j]
            items == remote[repo][meta.key]
            component == _find_component(items, resp)
        IN /\ calls' = Append(calls, Call("search", repo, component.id,
                                          SearchResult(items, resp), FALSE))
           /\ IF component # NoComponent
              THEN /\ found_component' = component
                   /\ sha_matches' = ShaMatches(component, meta.sha512_hex)
                   /\ up_j' = up_j
                   /\ up_pc' = "decide"
              ELSE /\ UNCHANGED <<found_component, sha_matches>>
                   /\ up_j' = up_j + 1
                   /\ up_pc' = IF up_j = Len(check_repos) THEN "decide" ELSE "search"
    /\ UNCHANGED <<phaseOneVars, check_repos, upload_repo, meta_info_list, remote, up_i, processed,
                   outcomes, remote0>>

\* process_package steps 2 and 3: skip, delete first, or upload
Decide ==
    /\ up_pc = "decide"
    /\ LET next == AfterSearch(found_component, sha_matches, upload_repo)
       IN /\ up_pc' = IF next = "return" THEN "loop" ELSE next
          /\ outcomes' = IF next = "return" THEN Append(outcomes, "skip") ELSE outcomes
    /\ UNCHANGED <<phaseOneVars, check_repos, upload_repo, meta_info_list, remote, up_i, up_j,
                   found_component, sha_matches, calls, processed, remote0>>

\* _delete_component: the result is not looked at by process_package
DeleteComponent ==
    /\ up_pc = "delete"
    /\ \E ok \in BOOLEAN :
        /\ calls' = Append(calls, Call("delete", found_component.repository, found_component.id,
                                       IF ok THEN "ok" ELSE "fail", FALSE))
        /\ remote' = IF ok THEN StoreAfterDelete(remote, found_component.id) ELSE remote
    /\ up_pc' = "upload"
    /\ UNCHANGED <<phaseOneVars, check_repos, upload_repo, meta_info_list, up_i, up_j,
                   found_component, sha_matches, processed, outcomes, remote0>>

\* process_package step 4, _upload_package
UploadPackage ==
    /\ up_pc = "upload"
    /\ \E res \in UploadOutcomes :
        LET meta == meta_info_list[up_i]
        IN /\ calls' = Append(calls, Call("upload", upload_repo, <<0, 0, 0>>, res,
                                          Conflicting(remote, upload_repo, meta)))
           /\ remote' = IF res = "ok" THEN StoreAfterUpload(remote, upload_repo, meta) ELSE remote
           /\ up_pc' = IF res = "openerr" THEN AfterException ELSE "loop"
           /\ outcomes' = Append(outcomes, res)
    /\ UNCHANGED <<phaseOneVars, check_repos, upload_repo, meta_info_list, up_i, up_j,
                   found_component, sha_matches, processed, remote0>>

\* main_upload: the for loop is exhausted
FinishUpload ==
    /\ up_pc = "loop"
    /\ up_i = Len(meta_info_list)
    /\ up_pc' = "done"
    /\ UNCHANGED <<phaseOneVars, check_repos, upload_repo, meta_info_list, remote, up_i, up_j,
                   found_component, sha_matches, calls, processed, outcomes, remote0>>

NextUpload ==
    \/ BeginEntry
    \/ SearchRepo
    \/ Decide
    \/ DeleteComponent
    \/ UploadPackage
    \/ FinishUpload

SpecUpload == InitUpload /\ [][NextUpload]_vars

\* the variables of phase two while phase one is modelled
UploadIdle ==
    /\ check_repos = <<>>
    /\ upload_repo = 0
    /\ meta_info_list = <<>>
    /\ remote = <<>>
    /\ up_pc = "idle"
    /\ up_i = 0
    /\ up_j = 0
    /\ found_component = NoComponent
    /\ sha_matches = FALSE
    /\ calls = <<>>
    /\ processed = <<>>
    /\ outcomes = <<>>
    /\ remote0 = <<>>

(* ---- phase two: properties ---- *)

\* process_package has returned (or raised) for manifest entry up_i
EntryDone == up_i >= 1 /\ up_pc \in {"loop", "done"}

\* the manifest entry being processed, or processed last
Meta == meta_info_list[up_i]

CallsOf(ops) == SelectSeq(calls, LAMBDA c : c.op \in ops)
Searches == CallsOf({"search"})
Deletes == CallsOf({"delete"})
Uploads == CallsOf({"upload"})
Mutations == CallsOf({"delete", "upload"})

\* every search of the entry was answered, with no or with exactly one item
SearchesAnswered == \A n \in 1..Len(Searches) : Searches[n].res \in {"one", "empty"}

\* the first component a search of the entry returned
Found == found_component # NoComponent
FoundMatches == Found /\ _get_remote_sha512_hex(found_component) = Meta.sha512_hex
FoundDiffers == Found /\ _get_remote_sha512_hex(found_component) # Meta.sha512_hex

\* C1 as stated: if some check repository, at any position, holds a component whose
\* digest equals the local sha512_hex, the entry ends with no delete and no upload call.
C1_SkipIfSomeRepoMatches ==
    (EntryDone /\ SearchesAnswered
       /\ \E n \in 1..Len(check_repos) : \E c \in remote0[check_repos[n]][Meta.key] :
              _get_remote_sha512_hex(c) = Meta.sha512_hex)
    => Mutations = <<>>

\* C1 amended: if the first component found (the first check repository, in configured
\* order, whose search returns exactly one component) has a digest equal to the local
\* sha512_hex, process_package issues no delete and no upload call.
C1_SkipIfFirstFoundMatches ==
    (up_i >= 1 /\ FoundMatches) => Mutations = <<>>

C1_Witness ==
    /\ EntryDone /\ FoundMatches
    /\ Len(Searches) = 2
    /\ Mutations = <<>>

\* C2 as stated: if the upload repository holds a component of the entry's coordinates
\* with another digest, the entry ends after exactly one delete of that component
\* followed by exactly one upload call.
C2_ReplaceIfUploadRepoDiffers ==
    \A c \in remote0[upload_repo][IF up_i >= 1 THEN Meta.key ELSE 1] :
        (EntryDone /\ SearchesAnswered /\ _get_remote_sha512_hex(c) # Meta.sha512_hex)
        => /\ Len(Mutations) = 2
           /\ Mutations[1].op = "delete" /\ Mutations[1].id = c.id
           /\ Mutations[2].op = "upload"

\* C2 amended: if the first component found resides in the upload repository and its
\* digest differs from the local sha512_hex, process_package issues exactly one delete
\* call, for that component's id, followed by exactly one upload call.
C2_ReplaceIfFirstFoundInUploadRepo ==
    (EntryDone /\ FoundDiffers /\ found_component.repository = upload_repo)
    => /\ Len(Mutations) = 2
       /\ Mutations[1].op = "delete" /\ Mutations[1].id = found_component.id
       /\ Mutations[2].op = "upload" /\ Mutations[2].repo = upload_repo

C2_Witness ==
    /\ EntryDone /\ FoundDiffers /\ found_component.repository = upload_repo
    /\ Len(Searches) = 2
    /\ Len(Mutations) = 2 /\ Mutations[1].op = "delete" /\ Mutations[2].op = "upload"

\* every check repository was searched and reported no component (empty or 404)
AllAbsent ==
    /\ Len(Searches) = Len(check_repos)
    /\ \A n \in 1..Len(Searches) : Searches[n].res \in {"empty", "404"}

\* C3: if every check repository reports no matching component (empty result or 404),
\* process_package makes exactly one upload call and no delete call.
C3_UploadIfAbsentEverywhere ==
    (EntryDone /\ AllAbsent) => (Len(Uploads) = 1 /\ Deletes = <<>>)

C3_Witness ==
    /\ EntryDone /\ AllAbsent
    /\ Len(Searches) = 2 /\ Searches[1].res = "404" /\ Searches[2].res = "empty"
    /\ Len(Uploads) = 1 /\ Deletes = <<>>

\* C4: when a search of the entry returned more than one item, processing of the entry
\* aborts: no delete and no upload call is issued for it.
C4_AbortOnAmbiguousSearch ==
    (\E n \in 1..Len(Searches) : Searches[n].res = "multi") => Mutations = <<>>

\* C5: an upload request is never sent while the upload repository holds a component
\* of the same coordinates with a different digest.
C5_NoUploadOverConflict ==
    \A n \in 1..Len(Uploads) : Uploads[n].res \in {"ok", "fail"} => ~Uploads[n].conflict

\* C7: no delete is issued for a component outside the upload repository; when the first
\* component found mismatches and resides in another repository, there is no delete
\* call, the other repositories are as they were, and exactly one upload call is made, to
\* the upload repository.
C7_NoDeleteOutsideUploadRepo ==
    /\ \A n \in 1..Len(Deletes) : Deletes[n].repo = upload_repo
    /\ \A r \in Repos : r # upload_repo => remote[r] = remote0[r]
    /\ (EntryDone /\ FoundDiffers /\ found_component.repository # upload_repo)
       => /\ Deletes = <<>>
          /\ Len(Uploads) = 1 /\ Uploads[1].repo = upload_repo

C7_Witness ==
    /\ EntryDone /\ FoundDiffers /\ found_component.repository # upload_repo
    /\ Deletes = <<>> /\ Len(Uploads) = 1
    /\ remote[found_component.repository] = remote0[found_component.repository]
    /\ found_component \in remote[found_component.repository][Meta.key]

\* C8: process_package is invoked once per manifest entry, in manifest order; however an
\* entry ends, the loop goes on, and the pass ends only after the last entry.
C8_EveryEntryProcessedInOrder ==
    /\ processed = [n \in 1..up_i |-> n]
    /\ up_i <= Len(meta_info_list)
    /\ Len(outcomes) = IF EntryDone THEN up_i ELSE IF up_i = 0 THEN 0 ELSE up_i - 1
    /\ up_pc = "done" => up_i = Len(meta_info_list)
    /\ up_pc # "done" => ENABLED NextUpload

C8_Witness ==
    /\ up_pc = "done"
    /\ processed = <<1, 2>>
    /\ outcomes[1] = "openerr"
    /\ outcomes[2] = "ok"

\* the search of a repository failed: network error, 404 or another non-2xx status
SearchFailures == {"neterr", "404", "httperr"}

NoId == NoComponent.id

\* C15: the check repositories are searched in configured order, one search each; only
\* the last search of an entry can have returned a component, no search follows it, all
\* searches precede the delete and upload calls, and what is done then is a function of
\* the first component found alone.
C15_StopsAtFirstFound ==
    /\ Len(Searches) <= Len(check_repos)
    /\ \A n \in 1..Len(Searches) :
          /\ Searches[n].repo = check_repos[n]
          /\ n < Len(Searches) => Searches[n].id = NoId
    /\ calls = Searches \o Mutations
    /\ (up_i >= 1 /\ Found)
       => /\ Searches # <<>>
          /\ Searches[Len(Searches)].id = found_component.id
          /\ found_component \in remote0[check_repos[Len(Searches)]][Meta.key]
    /\ (EntryDone /\ Found)
       => [n \in 1..Len(Mutations) |-> Mutations[n].op] =
             IF _get_remote_sha512_hex(found_component) = Meta.sha512_hex THEN <<>>
             ELSE IF found_component.repository = upload_repo THEN <<"delete", "upload">>
             ELSE <<"upload">>

\* the first check repository reports a component with another digest, the second holds
\* one with the local digest and is not searched
C15_Witness ==
    /\ EntryDone /\ FoundDiffers
    /\ Len(check_repos) = 2
    /\ Len(Searches) = 1
    /\ found_component.repository = check_repos[1]
    /\ \E c \in remote0[check_repos[2]][Meta.key] : _get_remote_sha512_hex(c) = Meta.sha512_hex
    /\ Len(Uploads) = 1

\* C16: a search that fails (network error, 404, other non-2xx status) returns no
\* component; the loop goes on with the next check repository; no delete is issued in a
\* repository whose search did not return a component; when no repository returned a
\* component the package is uploaded; and the pass over the manifest goes on.
C16_FailedSearchMeansAbsent ==
    /\ \A n \in 1..Len(Searches) :
          Searches[n].res \in SearchFailures
          => /\ Searches[n].id = NoId
             /\ n = Len(Searches) /\ n < Len(check_repos) => up_pc = "search" /\ up_j = n + 1
             /\ n < Len(Searches) => Searches[n + 1].repo = check_repos[n + 1]
    /\ \A m \in 1..Len(Deletes) :
          \E n \in 1..Len(Searches) :
              Searches[n].repo = Deletes[m].repo /\ Searches[n].res = "one"
    /\ (EntryDone /\ ~Found /\ \E n \in 1..Len(Searches) : Searches[n].res \in SearchFailures)
       => /\ Len(Searches) = Len(check_repos)
          /\ Deletes = <<>>
          /\ Len(Uploads) = 1
    /\ (\E n \in 1..Len(Searches) : Searches[n].res \in SearchFailures)
       => /\ up_pc = "done" => up_i = Len(meta_info_list)
          /\ up_pc # "done" => ENABLED NextUpload

\* the first search fails although the repository holds a mismatching component of the
\* upload repository, the second is answered empty: one upload and no delete; and the
\* next entry is taken up
C16_Witness ==
    /\ up_i = 2
    /\ outcomes # <<>>
    /\ EntryDone
    /\ Len(Searches) = 2
    /\ Searches[1].res = "neterr" /\ Searches[2].res = "httperr"
    /\ Deletes = <<>> /\ Len(Uploads) = 1
    /\ remote0[check_repos[2]][Meta.key] # {}

\* C18: process_package never reduces what the upload repository offers: when the
\* upload repository held a component of the entry's coordinates before the call, it
\* holds one after it.
C18_UploadRepoKeepsComponent ==
    (EntryDone /\ remote0[upload_repo][Meta.key] # {}) => remote[upload_repo][Meta.key] # {}

(* ---- phase two, run twice: main.py option 2 chosen again ---- *)

\* one manifest entry; main_upload is run, and then run again on what it left
InitRerun ==
    /\ InitUpload
    /\ Len(meta_info_list) = 1

\* main.py: after main_upload returned, the user chooses option 2 once more;
\* main_upload builds a new NexusUploader from the same config.ini and reads
\* the same meta-info.json
Rerun ==
    /\ up_pc = "done"
    /\ Len(processed) = Len(meta_info_list)
    /\ up_pc' = "loop"
    /\ up_i' = 0
    /\ UNCHANGED <<phaseOneVars, check_repos, upload_repo, meta_info_list, remote, up_j,
                   found_component, sha_matches, calls, processed, outcomes, remote0>>

NextRerun ==
    \/ BeginEntry
    \/ SearchRepo
    \/ Decide
    \/ DeleteComponent
    \/ UploadPackage
    \/ FinishUpload
    \/ Rerun

SpecRerun == InitRerun /\ [][NextRerun]_vars

\* process_package runs (or has run) for the entry a second time
SecondRun == Len(processed) = 2 /\ up_i = 1

\* the first run of process_package for the entry ended with a successful upload
FirstUploadSucceeded == Len(outcomes) >= 1 /\ outcomes[1] = "ok"

\* C11 as stated: for every configuration of check repositories and upload repository,
\* after a run of process_package whose upload succeeded, a second run for the same
\* entry on the resulting store issues no upload and no delete call.
C11_RerunIssuesNothing ==
    (SecondRun /\ EntryDone /\ FirstUploadSucceeded /\ SearchesAnswered) => Mutations = <<>>

\* C11 amended: after a run of process_package whose upload succeeded, a second run for
\* the same entry in which the first component found is the one of the upload repository
\* (the upload repository is a check repository, the searches of the repositories
\* listed before it return no component, and its own search returns the component)
\* issues no upload and no delete call.
C11_RerunSkipsIfUploadRepoFoundFirst ==
    (SecondRun /\ FirstUploadSucceeded /\ Found /\ found_component.repository = upload_repo)
    => /\ Mutations = <<>>
       /\ remote = remote0

C11_Witness ==
    /\ SecondRun /\ EntryDone /\ FirstUploadSucceeded
    /\ Found /\ found_component.repository = upload_repo
    /\ Len(Searches) = 2
    /\ Mutations = <<>>
    /\ outcomes = <<"ok", "skip">>

(* ---- strings: sequences of one-character strings ---- *)

\* python bool(x) of a string; a missing field (None) is modelled by the empty string
Truthy(str) == str # <<>>

\* str.startswith(prefix)
StartsWith(str, prefix) ==
    /\ Len(str) >= Len(prefix)
    /\ SubSeq(str, 1, Len(prefix)) = prefix

\* str[n:] for n >= 0 (n is a python index, counted from 0)
SliceFrom(str, n) == IF n >= Len(str) THEN <<>> ELSE SubSeq(str, n + 1, Len(str))

\* str.rfind(sub): the python index of the last occurrence of sub, or -1
RFind(str, sub) ==
    LET at == {n \in 0..(Len(str) - Len(sub)) : SubSeq(str, n + 1, n + Len(sub)) = sub}
    IN IF at = {} THEN -1 ELSE CHOOSE n \in at : \A m \in at : m <= n

\* str.replace(old, new) for a non-empty old: every occurrence, left to right
RECURSIVE Replace(_, _, _)
Replace(str, old, new) ==
    IF str = <<>> THEN <<>>
    ELSE IF StartsWith(str, old) THEN new \o Replace(SliceFrom(str, Len(old)), old, new)
    ELSE <<Head(str)>> \o Replace(Tail(str), old, new)

\* str.split(sep) for a one-character sep: the list of the fields
RECURSIVE Split(_, _)
Split(str, sep) ==
    IF \A n \in 1..Len(str) : str[n] # sep THEN <<str>>
    ELSE LET n == CHOOSE a \in 1..Len(str) : str[a] = sep /\ \A b \in 1..(a - 1) : str[b] # sep
         IN <<SubSeq(str, 1, n - 1)>> \o Split(SliceFrom(str, n), sep)

\* str.split(sep, 1)
SplitOnce(str, sep) ==
    IF \A n \in 1..Len(str) : str[n] # sep THEN <<str>>
    ELSE LET n == CHOOSE a \in 1..Len(str) : str[a] = sep /\ \A b \in 1..(a - 1) : str[b] # sep
         IN <<SubSeq(str, 1, n - 1), SliceFrom(str, n)>>

NodeModulesMarker == <<"n", "o", "d", "e", "_", "m", "o", "d", "u", "l", "e", "s", "/">>
Sha512Prefix == <<"s", "h", "a", "5", "1", "2", "-">>
TgzSuffix == <<".", "t", "g", "z">>

(* ---- parse_package_lock ---- *)

\* name = path[path.rfind('node_modules/') + len('node_modules/'):]
NameOfPath(path) ==
    SliceFrom(path, RFind(path, NodeModulesMarker) + Len(NodeModulesMarker))

\* the sha512 token of the integrity field: the first token starting with 'sha512-',
\* with every 'sha512-' removed; None (empty) when there is no such token
RECURSIVE FirstSha512(_)
FirstSha512(tokens) ==
    IF tokens = <<>> THEN <<>>
    ELSE IF StartsWith(Head(tokens), Sha512Prefix) THEN Replace(Head(tokens), Sha512Prefix, <<>>)
    ELSE FirstSha512(Tail(tokens))

Sha512OfIntegrity(integrity) == FirstSha512(Split(integrity, " "))

\* ParsedEntry without the check of line 67 for an empty sha512 value
ParsedEntry_NoTokenCheck(entry) ==
    LET name == NameOfPath(entry.path)
        sha512_b64 == Sha512OfIntegrity(entry.integrity)
    IN IF ~Truthy(entry.path) THEN <<>>
       ELSE IF ~(Truthy(entry.resolved) /\ Truthy(entry.integrity)
                 /\ Truthy(entry.version) /\ Truthy(name)) THEN <<>>
       ELSE <<[name |-> name, version |-> entry.version,
               resolved |-> entry.resolved, sha512_b64 |-> sha512_b64]>>

\* one iteration of the for loop: the descriptor appended for the entry, if any
ParsedEntry(entry) ==
    LET name == NameOfPath(entry.path)
        sha512_b64 == Sha512OfIntegrity(entry.integrity)
    IN IF ~Truthy(entry.path) THEN <<>>
       ELSE IF ~(Truthy(entry.resolved) /\ Truthy(entry.integrity)
                 /\ Truthy(entry.version) /\ Truthy(name)) THEN <<>>
       ELSE IF ~Truthy(sha512_b64) THEN <<>>
       ELSE <<[name |-> name, version |-> entry.version,
               resolved |-> entry.resolved, sha512_b64 |-> sha512_b64]>>

(* ---- download_package: the local path ---- *)

download_dir == <<"d">>

\* pkg_filename of lines 109-110
PkgFilename(name, version) ==
    Replace(Replace(name, <<"/">>, <<"#">>), <<"\\">>, <<"#">>) \o <<"-">> \o version \o TgzSuffix

\* tgz_path = os.path.join(download_dir, pkg_filename)
TgzPath(name, version) == download_dir \o <<"/">> \o PkgFilename(name, version)

(* ---- parse_package_lock as a loop, and the local path of each descriptor ---- *)

\* installation paths of the lockfile: the root, plain, hyphenated, scoped and nested
\* packages, and a path without the node_modules/ marker
LockPaths ==
    << <<>>,
       NodeModulesMarker \o <<"a">>,
       NodeModulesMarker \o <<"a", "-", "1">>,
       NodeModulesMarker \o <<"@", "s", "/", "a">>,
       NodeModulesMarker \o <<"x", "/">> \o NodeModulesMarker \o <<"a">>,
       <<"p", "k", "/", "a">> >>

LockVersions == {<<>>, <<"2">>, <<"1", "-", "2">>}

LockResolved == {<<>>, <<"u">>}

LockIntegrity ==
    {<<>>,
     <<"s", "h", "a", "1", "-", "Z">>,
     Sha512Prefix,
     Sha512Prefix \o <<"Q", "g">>,
     <<"s", "h", "a", "1", "-", "Z", " ">> \o Sha512Prefix \o <<"Q", "g">>}

LockEntry(p) == [path : {LockPaths[p]}, resolved : LockResolved,
                 integrity : LockIntegrity, version : LockVersions]

\* lockfiles of 1..n entries; the keys of the mapping are distinct, and are taken in
\* the order of LockPaths (each entry is parsed on its own)
RECURSIVE LockfilesFrom(_, _)
LockfilesFrom(p, n) ==
    IF n = 0 \/ p > Len(LockPaths) THEN {<<>>}
    ELSE LockfilesFrom(p + 1, n)
         \cup {<<e>> \o rest : e \in LockEntry(p), rest \in LockfilesFrom(p + 1, n - 1)}

InitParse ==
    /\ lockfile \in LockfilesFrom(1, MaxLockEntries) \ {<<>>}
    /\ pl_pc = "parse"
    /\ pl_i = 0
    /\ packages_to_download = <<>>
    /\ tgz_paths = <<>>
    /\ UploadIdle
    /\ DownloadIdle

\* one iteration of the for loop of parse_package_lock
ParseEntry ==
    /\ pl_pc = "parse"
    /\ pl_i < Len(lockfile)
    /\ pl_i' = pl_i + 1
    /\ packages_to_download' = packages_to_download \o ParsedEntry(lockfile[pl_i + 1])
    /\ UNCHANGED <<lockfile, pl_pc, tgz_paths, uploadVars, downloadVars>>

\* parse_package_lock returns the list
ParseReturn ==
    /\ pl_pc = "parse"
    /\ pl_i = Len(lockfile)
    /\ pl_pc' = "paths"
    /\ UNCHANGED <<lockfile, pl_i, packages_to_download, tgz_paths, uploadVars, downloadVars>>

\* download_package computes tgz_path for the next descriptor
LocalPath ==
    /\ pl_pc = "paths"
    /\ Len(tgz_paths) < Len(packages_to_download)
    /\ LET pkg == packages_to_download[Len(tgz_paths) + 1]
       IN tgz_paths' = Append(tgz_paths, TgzPath(pkg.name, pkg.version))
    /\ UNCHANGED <<lockfile, pl_pc, pl_i, packages_to_download, uploadVars, downloadVars>>

\* every descriptor has its path
PathsDone ==
    /\ pl_pc = "paths"
    /\ Len(tgz_paths) = Len(packages_to_download)
    /\ pl_pc' = "done"
    /\ UNCHANGED <<lockfile, pl_i, packages_to_download, tgz_paths, uploadVars, downloadVars>>

NextParse ==
    \/ ParseEntry
    \/ ParseReturn
    \/ LocalPath
    \/ PathsDone

SpecParse == InitParse /\ [][NextParse]_vars

(* ---- phase one: properties of the parser and the local paths ---- *)

\* C10: two descriptors of one lockfile that differ in name or version have different
\* local file paths.
C10_DistinctDescriptorsDistinctPaths ==
    \A a, b \in 1..Len(tgz_paths) :
        (packages_to_download[a].name # packages_to_download[b].name
           \/ packages_to_download[a].version # packages_to_download[b].version)
        => tgz_paths[a] # tgz_paths[b]

\* the integrity field holds a token for the 512-bit algorithm that carries a digest
HasSha512Token(integrity) ==
    LET tokens == Split(integrity, " ")
    IN \E n \in 1..Len(tokens) :
          StartsWith(tokens[n], Sha512Prefix) /\ Len(tokens[n]) > Len(Sha512Prefix)

\* a lockfile entry that lacks nothing: not the root, with a resolved URL, a version,
\* a sha512 integrity token and a derived name
ValidEntry(entry) ==
    /\ entry.path # <<>>
    /\ entry.resolved # <<>>
    /\ entry.version # <<>>
    /\ HasSha512Token(entry.integrity)
    /\ NameOfPath(entry.path) # <<>>

\* the entries the loop has gone through that lack nothing, in file order
ValidSoFar == SelectSeq(SubSeq(lockfile, 1, pl_i), ValidEntry)

\* C14: every descriptor has a non-empty name, version, resolved URL and sha512 digest;
\* the descriptors are exactly the entries that lack nothing, in file order (the root and
\* the entries lacking a field are left out, the others are all kept); and the loop goes
\* on to the end of the lockfile whatever it leaves out.
C14_DescriptorsAreTheValidEntries ==
    /\ \A n \in 1..Len(packages_to_download) :
          /\ packages_to_download[n].name # <<>>
          /\ packages_to_download[n].version # <<>>
          /\ packages_to_download[n].resolved # <<>>
          /\ packages_to_download[n].sha512_b64 # <<>>
    /\ Len(packages_to_download) = Len(ValidSoFar)
    /\ \A n \in 1..Len(packages_to_download) :
          /\ packages_to_download[n].version = ValidSoFar[n].version
          /\ packages_to_download[n].resolved = ValidSoFar[n].resolved
          /\ packages_to_download[n].name \o <<"$">> =
                SliceFrom(ValidSoFar[n].path \o <<"$">>,
                          Len(ValidSoFar[n].path) - Len(packages_to_download[n].name))
    /\ pl_pc = "parse" => ENABLED NextParse
    /\ pl_pc # "parse" => pl_i = Len(lockfile)

\* an entry with a version and a URL but only a sha1 token is left out, and the entry
\* after it is returned
C14_Witness ==
    /\ pl_pc = "done"
    /\ Len(lockfile) = 2
    /\ lockfile[1].path # <<>> /\ lockfile[1].resolved # <<>> /\ lockfile[1].version # <<>>
    /\ lockfile[1].integrity = <<"s", "h", "a", "1", "-", "Z">>
    /\ Len(packages_to_download) = 1
    /\ packages_to_download[1].name = <<"@", "s", "/", "a">>
    /\ packages_to_download[1].sha512_b64 = <<"Q", "g">>

(* ---- digests and their encodings ---- *)

\* A digest is three bytes wide here (three stand for the 64 of SHA-512).
\* hashlib.sha512 over the chunks fed to update(): a stand-in hash, folded over the
\* chunks in order (a hole of a sparse file reads as chunk 0)
RECURSIVE HashFold(_, _)
HashFold(h, chunks) ==
    IF chunks = <<>> THEN h
    ELSE HashFold((h * 101 + Head(chunks) + 1) % 16777216, Tail(chunks))

\* digest(): the bytes of the hash, most significant first
Sha512(chunks) ==
    LET h == HashFold(5381, chunks)
    IN <<h \div 65536, (h \div 256) % 256, h % 256>>

HexDigits == <<"0", "1", "2", "3", "4", "5", "6", "7", "8", "9", "a", "b", "c", "d", "e", "f">>

\* hexdigest(): two hex digits per byte
RECURSIVE HexEncode(_)
HexEncode(bytes) ==
    IF bytes = <<>> THEN <<>>
    ELSE <<HexDigits[(Head(bytes) \div 16) + 1], HexDigits[(Head(bytes) % 16) + 1]>>
         \o HexEncode(Tail(bytes))

B64Alphabet == <<
    "A", "B", "C", "D", "E", "F", "G", "H", "I", "J", "K", "L", "M", "N", "O", "P",
    "Q", "R", "S", "T", "U", "V", "W", "X", "Y", "Z", "a", "b", "c", "d", "e", "f",
    "g", "h", "i", "j", "k", "l", "m", "n", "o", "p", "q", "r", "s", "t", "u", "v",
    "w", "x", "y", "z", "0", "1", "2", "3", "4", "5", "6", "7", "8", "9", "+", "/" >>

\* base64.b64encode(...).decode('utf-8') of a byte string whose length is a multiple of
\* three: four characters of six bits per three bytes
RECURSIVE B64Encode(_)
B64Encode(bytes) ==
    IF Len(bytes) < 3 THEN <<>>
    ELSE LET n == bytes[1] * 65536 + bytes[2] * 256 + bytes[3]
         IN <<B64Alphabet[(n \div 262144) + 1], B64Alphabet[((n \div 4096) % 64) + 1],
              B64Alphabet[((n \div 64) % 64) + 1], B64Alphabet[(n % 64) + 1]>>
            \o B64Encode(SubSeq(bytes, 4, Len(bytes)))

(* ---- download_package ---- *)

\* the bodies the registry serves, as chunks of iter_content
Body1 == <<1, 2>>
Body2 == <<3>>

Url1 == <<"u", "1">>
Url2 == <<"u", "2">>
Mirror == <<"m", "/">>

\* what a GET of the URL streams when the request succeeds
Serve(url) == IF url = Url2 THEN Body2 ELSE Body1

\* name.split('/')[-1]
BaseName(name) == LET parts == Split(name, "/") IN parts[Len(parts)]

\* download_url of lines 97-105; urljoin with a mirror ending in '/' appends
DownloadUrl(pkg, cfg) ==
    IF ~cfg.use_resolved /\ Truthy(cfg.mirror)
    THEN cfg.mirror \o pkg.name \o <<"/", "-", "/">>
         \o BaseName(pkg.name) \o <<"-">> \o pkg.version \o TgzSuffix
    ELSE pkg.resolved

\* os.path.abspath of a relative path
AbsPath(path) == <<"/", "w", "/">> \o path

\* python None as the result of download_package
NoResult ==
    [group |-> <<>>, name |-> <<>>, version |-> <<>>, nexus_search_name |-> <<>>,
     download_url |-> <<>>, local_path |-> <<>>, sha512_hex |-> <<>>]

\* meta_entry of lines 147-163
MetaEntry(pkg, cfg, digest) ==
    LET scoped == \E n \in 1..Len(pkg.name) : pkg.name[n] = "/"
        parts == SplitOnce(pkg.name, "/")
        group == IF scoped THEN parts[1] ELSE <<>>
        pkg_name == IF scoped THEN parts[2] ELSE pkg.name
    IN [group |-> group, name |-> pkg_name, version |-> pkg.version,
        nexus_search_name |-> pkg_name \o <<"-">> \o pkg.version,
        download_url |-> DownloadUrl(pkg, cfg),
        local_path |-> AbsPath(TgzPath(pkg.name, pkg.version)),
        sha512_hex |-> HexEncode(digest)]

\* the check of line 141
DigestMismatch(digest, expected_sha512_b64) == B64Encode(digest) # expected_sha512_b64

(* ---- the file system ---- *)

NoFile == [ino |-> 0, data |-> <<>>]

File(ino, data) == [ino |-> ino, data |-> data]

\* write of one chunk at an offset of a file; a gap before the offset is a hole
WriteAt(data, pos, chunk) ==
    [n \in 1..(IF pos + 1 > Len(data) THEN pos + 1 ELSE Len(data)) |->
        IF n = pos + 1 THEN chunk ELSE IF n <= Len(data) THEN data[n] ELSE 0]

\* a mismatch that leaves the bad file in place
RemoveFile_Keep(files, path) == files

\* os.remove(tgz_path) of line 142
RemoveFile(files, path) == [files EXCEPT ![path] = NoFile]

(* ---- main_download: the pool and the collection of results ---- *)

\* meta_info_list with every result appended, None included
CollectResult_AppendAll(list, result) == Append(list, result)

\* lines 196-198: a result that is not None is appended
CollectResult(list, result) == IF result # NoResult THEN Append(list, result) ELSE list

NewTask ==
    [pc |-> "queued", fd |-> 0, pos |-> 0, hashed |-> <<>>, left |-> <<>>,
     result |-> NoResult, why |-> "", src |-> "", fileAfter |-> FALSE]

Tasks == 1..Len(packages_to_download)

\* tgz_path of the task's descriptor, lines 109-111
PathOf(t) == tgz_paths[t]

PathsOf(pkgs) == [t \in 1..Len(pkgs) |-> TgzPath(pkgs[t].name, pkgs[t].version)]

Running == {t \in Tasks : task[t].pc \notin {"queued", "done", "raised"}}

\* the future has a result or an exception
Finished(t) == task[t].pc \in {"done", "raised"}

\* download_package returns None
Fail(t, why) == [task[t] EXCEPT !.pc = "done", !.result = NoResult, !.why = why]

(* the lockfiles of the download runs: valid entries only *)
DownloadPaths ==
    << NodeModulesMarker \o <<"a">>,
       NodeModulesMarker \o <<"@", "s", "/", "a">>,
       NodeModulesMarker \o <<"x", "/">> \o NodeModulesMarker \o <<"a">> >>

DownloadEntry(p) ==
    [path : {DownloadPaths[p]}, resolved : {Url1, Url2},
     integrity : {Sha512Prefix \o B64Encode(Sha512(Body1)), Sha512Prefix \o B64Encode(Sha512(Body2))},
     version : {<<"2">>}]

RECURSIVE DownloadLockfilesFrom(_, _)
DownloadLockfilesFrom(p, n) ==
    IF n = 0 \/ p > Len(DownloadPaths) THEN {<<>>}
    ELSE DownloadLockfilesFrom(p + 1, n)
         \cup {<<e>> \o rest : e \in DownloadEntry(p), rest \in DownloadLockfilesFrom(p + 1, n - 1)}

\* parse_package_lock over the whole lockfile
RECURSIVE ParseAll(_)
ParseAll(entries) ==
    IF entries = <<>> THEN <<>> ELSE ParsedEntry(Head(entries)) \o ParseAll(Tail(entries))

\* files a run may find in download_dir: complete archives and a truncated one
InitialFiles == {NoFile, File(1, Body1), File(1, Body2), File(1, <<1>>)}

InitDownload ==
    /\ lockfile \in DownloadLockfilesFrom(1, MaxTasks) \ {<<>>}
    /\ packages_to_download = ParseAll(lockfile)
    /\ pl_pc = "done"
    /\ pl_i = Len(lockfile)
    /\ tgz_paths = PathsOf(packages_to_download)
    /\ dl_config \in [use_resolved : BOOLEAN, mirror : {Mirror},
                      max_workers : 1..MaxWorkers, dir_ok : BOOLEAN]
    /\ task = [t \in Tasks |-> NewTask]
    /\ disk \in [{PathOf(t) : t \in Tasks} -> InitialFiles]
    /\ next_ino = 2
    /\ dl_meta_info_list = <<>>
    /\ dl_collected = <<>>
    /\ dl_main = "collect"
    /\ meta_file = ManifestFile("absent", <<>>)
    /\ UploadIdle

\* a pool thread takes the next queued future and enters download_package:
\* Path(download_dir).mkdir(exist_ok=True) is outside the try block
BeginTask(t) ==
    /\ task[t].pc = "queued"
    /\ \A u \in Tasks : u < t => task[u].pc # "queued"
    /\ Cardinality(Running) < dl_config.max_workers
    /\ task' = [task EXCEPT ![t].pc = IF dl_config.dir_ok THEN "check" ELSE "raised",
                            ![t].why = IF dl_config.dir_ok THEN "" ELSE "mkdir"]
    /\ UNCHANGED <<dl_config, disk, next_ino, dl_meta_info_list, dl_collected, dl_main,
                   meta_file, parseVars, uploadVars>>

\* CheckExists that takes the download branch whether the file is there or not
CheckExists_AlwaysGet(t) ==
    /\ task[t].pc = "check"
    /\ task' = [task EXCEPT ![t].pc = "get"]
    /\ UNCHANGED <<dl_config, disk, next_ino, dl_meta_info_list, dl_collected, dl_main,
                   meta_file, parseVars, uploadVars>>

\* os.path.exists(tgz_path)
CheckExists(t) ==
    /\ task[t].pc = "check"
    /\ task' = [task EXCEPT ![t].pc = IF disk[PathOf(t)] # NoFile THEN "read" ELSE "get"]
    /\ UNCHANGED <<dl_config, disk, next_ino, dl_meta_info_list, dl_collected, dl_main,
                   meta_file, parseVars, uploadVars>>

\* the cached file is opened and hashed
ReadCached(t) ==
    /\ task[t].pc = "read"
    /\ task' = [task EXCEPT ![t] =
                  IF disk[PathOf(t)] = NoFile THEN Fail(t, "enoent")
                  ELSE [task[t] EXCEPT !.pc = "verify", !.hashed = disk[PathOf(t)].data,
                                       !.src = "cache"]]
    /\ UNCHANGED <<dl_config, disk, next_ino, dl_meta_info_list, dl_collected, dl_main,
                   meta_file, parseVars, uploadVars>>

\* requests.get and raise_for_status
Get(t) ==
    /\ task[t].pc = "get"
    /\ \E resp \in {"ok", "httperr", "neterr"} :
        task' = [task EXCEPT ![t] =
                   IF resp # "ok" THEN Fail(t, resp)
                   ELSE [task[t] EXCEPT !.pc = "open", !.src = "net",
                            !.left = Serve(DownloadUrl(packages_to_download[t], dl_config))]]
    /\ UNCHANGED <<dl_config, disk, next_ino, dl_meta_info_list, dl_collected, dl_main,
                   meta_file, parseVars, uploadVars>>

\* open(tgz_path, 'wb'): creates the file, or truncates the one that is there
OpenWrite(t) ==
    /\ task[t].pc = "open"
    /\ \E ok \in BOOLEAN :
        IF ~ok
        THEN /\ task' = [task EXCEPT ![t] = Fail(t, "openerr")]
             /\ UNCHANGED <<disk, next_ino>>
        ELSE LET old == disk[PathOf(t)]
                 ino == IF old = NoFile THEN next_ino ELSE old.ino
             IN /\ disk' = [disk EXCEPT ![PathOf(t)] = File(ino, <<>>)]
                /\ next_ino' = IF old = NoFile THEN next_ino + 1 ELSE next_ino
                /\ task' = [task EXCEPT ![t].pc = "write", ![t].fd = ino, ![t].pos = 0]
    /\ UNCHANGED <<dl_config, dl_meta_info_list, dl_collected, dl_main,
                   meta_file, parseVars, uploadVars>>

\* one iteration of the loop over iter_content, or the exception that ends it
WriteChunk(t) ==
    /\ task[t].pc = "write"
    /\ \E ok \in BOOLEAN :
        IF ~ok
        THEN /\ task' = [task EXCEPT ![t] = Fail(t, "stream")]
             /\ UNCHANGED disk
        ELSE LET chunk == Head(task[t].left)
                 file == disk[PathOf(t)]
             IN /\ disk' = IF file # NoFile /\ file.ino = task[t].fd
                           THEN [disk EXCEPT ![PathOf(t)] =
                                    File(file.ino, WriteAt(file.data, task[t].pos, chunk))]
                           ELSE disk
                /\ task' = [task EXCEPT ![t].pos = @ + 1,
                                        ![t].hashed = Append(@, chunk),
                                        ![t].left = Tail(@),
                                        ![t].pc = IF Tail(task[t].left) = <<>> THEN "verify" ELSE "write"]
    /\ UNCHANGED <<dl_config, next_ino, dl_meta_info_list, dl_collected, dl_main,
                   meta_file, parseVars, uploadVars>>

\* lines 138-164 and 166-168: the digest is compared; on a mismatch the file is removed
\* and the function returns None, else it returns meta_entry
Verify(t) ==
    /\ task[t].pc = "verify"
    /\ LET pkg == packages_to_download[t]
           digest == Sha512(task[t].hashed)
           files == IF DigestMismatch(digest, pkg.sha512_b64) /\ disk[PathOf(t)] # NoFile
                    THEN RemoveFile(disk, PathOf(t)) ELSE disk
       IN /\ disk' = files
          /\ task' = [task EXCEPT ![t] =
                IF DigestMismatch(digest, pkg.sha512_b64)
                THEN [Fail(t, IF disk[PathOf(t)] # NoFile THEN "mismatch" ELSE "mismatch_enoent")
                         EXCEPT !.fileAfter = files[PathOf(t)] # NoFile]
                ELSE [task[t] EXCEPT !.pc = "done", !.result = MetaEntry(pkg, dl_config, digest),
                                     !.fileAfter = files[PathOf(t)] # NoFile]]
    /\ UNCHANGED <<dl_config, next_ino, dl_meta_info_list, dl_collected, dl_main,
                   meta_file, parseVars, uploadVars>>

\* as_completed yields a finished future; its result is collected
Collect(t) ==
    /\ dl_main = "collect"
    /\ Finished(t)
    /\ \A n \in 1..Len(dl_collected) : dl_collected[n] # t
    /\ dl_collected' = Append(dl_collected, t)
    /\ dl_meta_info_list' = IF task[t].pc = "raised" THEN dl_meta_info_list
                            ELSE CollectResult(dl_meta_info_list, task[t].result)
    /\ UNCHANGED <<dl_config, task, disk, next_ino, dl_main, meta_file, parseVars, uploadVars>>

\* every future was yielded: the executor is shut down
PoolDone ==
    /\ dl_main = "collect"
    /\ Len(dl_collected) = Len(packages_to_download)
    /\ dl_main' = "write"
    /\ UNCHANGED <<dl_config, task, disk, next_ino, dl_meta_info_list, dl_collected,
                   meta_file, parseVars, uploadVars>>

\* the manifest is written; an IOError leaves it absent or partly written
WriteManifest ==
    /\ dl_main = "write"
    /\ \E res \in {"written", "partial", "absent"} :
        /\ meta_file' = ManifestFile(res, IF res = "written" THEN dl_meta_info_list ELSE <<>>)
        /\ dl_main' = IF res = "written" THEN "done" ELSE "failed"
    /\ UNCHANGED <<dl_config, task, disk, next_ino, dl_meta_info_list, dl_collected,
                   parseVars, uploadVars>>

NextDownload ==
    \/ \E t \in Tasks : BeginTask(t)
    \/ \E t \in Tasks : CheckExists(t)
    \/ \E t \in Tasks : ReadCached(t)
    \/ \E t \in Tasks : Get(t)
    \/ \E t \in Tasks : OpenWrite(t)
    \/ \E t \in Tasks : WriteChunk(t)
    \/ \E t \in Tasks : Verify(t)
    \/ \E t \in Tasks : Collect(t)
    \/ PoolDone
    \/ WriteManifest

SpecDownload == InitDownload /\ [][NextDownload]_vars

(* ---- phase one: properties of download_package and main_download ---- *)

\* download_package of task t obtained bytes (from the cache or the network) and
\* compared their digest
Obtained(t) ==
    task[t].pc = "done" /\ task[t].why \notin {"enoent", "httperr", "neterr", "openerr", "stream"}

ObtainedMismatch(t) ==
    Obtained(t) /\ DigestMismatch(Sha512(task[t].hashed), packages_to_download[t].sha512_b64)

\* C6: when the digest of the bytes obtained (downloaded or read from the cached file)
\* differs from the expected one, download_package returns None and no file is at the
\* local path when it returns; the path stays empty when no other descriptor uses it.
C6_MismatchFailsAndRemovesFile ==
    \A t \in Tasks :
        ObtainedMismatch(t)
        => /\ task[t].result = NoResult
           /\ ~task[t].fileAfter
           /\ (\A u \in Tasks : u # t => PathOf(u) # PathOf(t)) => disk[PathOf(t)] = NoFile

C6_Witness ==
    \E t, u \in Tasks :
        /\ ObtainedMismatch(t) /\ task[t].src = "cache"
        /\ ObtainedMismatch(u) /\ task[u].src = "net"
        /\ PathOf(t) # PathOf(u)
        /\ disk[PathOf(t)] = NoFile /\ disk[PathOf(u)] = NoFile

Succeeded(t) == task[t].pc = "done" /\ task[t].result # NoResult

Occurrences(list, e) == Cardinality({n \in 1..Len(list) : list[n] = e})

\* C9: the manifest main_download writes holds one entry per descriptor whose
\* download_package call returned a result and nothing else; every descriptor's future
\* has run to its end and was collected once, whatever happened to the others.
C9_ManifestHoldsTheSuccesses ==
    /\ dl_main = "done" =>
        /\ meta_file.state = "written"
        /\ \A t \in Tasks : Finished(t) /\ Occurrences(dl_collected, t) = 1
        /\ \A n \in 1..Len(meta_file.entries) :
              /\ meta_file.entries[n] # NoResult
              /\ \E t \in Tasks : Succeeded(t) /\ task[t].result = meta_file.entries[n]
        /\ \A t \in Tasks :
              Succeeded(t) => Occurrences(meta_file.entries, task[t].result)
                              = Cardinality({u \in Tasks : Succeeded(u) /\ task[u].result = task[t].result})
    /\ dl_main \in {"collect", "write"} => ENABLED NextDownload

C9_Witness ==
    /\ dl_main = "done"
    /\ Len(packages_to_download) = 2
    /\ task[1].why = "stream"
    /\ Succeeded(2)
    /\ meta_file.entries = <<task[2].result>>

\* download_package is called for the same descriptor a second time, after the first
\* call returned: two install paths of one package with the same URL and integrity,
\* run one after the other by a pool of one thread
CalledAgain(t, u) ==
    /\ t < u
    /\ packages_to_download[t] = packages_to_download[u]
    /\ dl_config.max_workers = 1
    /\ \A v \in Tasks : v \notin {t, u} => PathOf(v) # PathOf(t)

\* C12: when download_package is called again for a descriptor whose first call
\* returned a result (the local file is there, with the verified digest), the second
\* call makes no request, hashes the cached file, returns the same result, and the
\* file holds the same bytes as before.
C12_SecondFetchUsesTheCache ==
    \A t, u \in Tasks :
        (CalledAgain(t, u) /\ Succeeded(t) /\ task[u].pc # "queued")
        => /\ task[u].pc \in {"check", "read", "verify", "done"}
           /\ task[u].src # "net"
           /\ disk[PathOf(u)] # NoFile
           /\ disk[PathOf(u)].data = task[t].hashed
           /\ Finished(u) => /\ task[u].src = "cache"
                              /\ task[u].why = ""
                              /\ task[u].result = task[t].result
                              /\ task[u].hashed = task[t].hashed

C12_Witness ==
    \E t, u \in Tasks :
        /\ CalledAgain(t, u) /\ Succeeded(t) /\ Succeeded(u)
        /\ task[t].src = "net" /\ task[u].src = "cache"
        /\ task[u].result = task[t].result
        /\ disk[PathOf(u)].data = task[t].hashed

\* C13: when the download directory cannot be created, main_download does not take the
\* descriptors one by one as failed and does not write a manifest.
C13_NoManifestWithoutDirectory ==
    ~dl_config.dir_ok => (dl_meta_info_list = <<>> /\ meta_file.state # "written")

\* the task whose result a manifest entry is
TasksOfEntry(entry) == {t \in Tasks : task[t].result = entry}

\* descriptors with the same local path are the same descriptor: one name and version
\* under several install paths, with one URL and one integrity value
SamePathSameDescriptor ==
    \A t, u \in Tasks : PathOf(t) = PathOf(u) => packages_to_download[t] = packages_to_download[u]

\* C17: when main_download has written the manifest, every entry's local file is on disk
\* and the SHA-512 of its bytes is the entry's sha512_hex; stated for the lockfiles in
\* which the descriptors that share a local path are equal.
C17_ManifestEntriesHaveVerifiedFiles ==
    (dl_main = "done" /\ SamePathSameDescriptor)
    => \A n \in 1..Len(meta_file.entries) : \A t \in TasksOfEntry(meta_file.entries[n]) :
           /\ disk[PathOf(t)] # NoFile
           /\ HexEncode(Sha512(disk[PathOf(t)].data)) = meta_file.entries[n].sha512_hex

\* C19: when download_package returned None, whatever the reason, no file is at the
\* descriptor's local path (no other descriptor uses the path).
C19_NoFileAfterFailure ==
    \A t \in Tasks :
        (task[t].pc = "done" /\ task[t].result = NoResult
           /\ \A u \in Tasks : u # t => PathOf(u) # PathOf(t))
        => disk[PathOf(t)] = NoFile

====
